---- MODULE Spec2Model ----
(***************************************************************************)
(* The update dispatch core of aiotgbotapi (src/aiotgbotapi/bot.py):       *)
(* the handler registry, filters, the middleware chain, the concurrent     *)
(* fan-out, the long-polling loop and the start/stop lifecycle of Bot.     *)
(***************************************************************************)
EXTENDS Integers, Sequences, FiniteSets, TLC

\* ------------------------------------------------------------------ bounds
\* Handler objects constructed in one run (Handler(...) in add_update_handler).
MaxHandlers == 2
\* Length of the class-level middleware list.
MaxMiddlewares == 2
\* Webhook deliveries of a single update to one instance in one run.
MaxUpdates == 1
\* Units of work created in one run, over all batches.
MaxTasks == 2
\* get_updates calls made by one polling loop.
MaxFetches == 3
\* Largest update identifier the server hands out, and the longest batch.
MaxUpdateId == 7
MaxBatch == 2

\* ------------------------------------------------------- the closed sets
\* Two instances of class Bot; the handler registry and the middleware list
\* are class attributes, the running flag and the prepared list are set on
\* the instance.
Bots == {"bot1", "bot2"}

\* The keys of Bot.__updates_handlers.
UpdateTypes ==
    {"message", "edited_message", "channel_post", "edited_channel_post",
     "inline_query", "chosen_inline_result", "callback_query",
     "shipping_query", "pre_checkout_query", "poll", "poll_answer",
     "my_chat_member", "chat_member"}

\* filters=None of Handler.__init__.
NoFilter == "None"

\* ------------------------------------------------------------ user code
\* What a filter callable returns when awaited: a bool, a dict or an
\* exception. Filters are user code; each named filter has one behaviour.
BoolResult(v) == [tag |-> "bool", b |-> v, d |-> <<>>]
DictResult(m) == [tag |-> "dict", b |-> FALSE, d |-> m]
RaiseResult == [tag |-> "raise", b |-> FALSE, d |-> <<>>]

FilterResult(filters) ==
    CASE filters = "flt_false" -> BoolResult(FALSE)
      [] filters = "flt_true" -> BoolResult(TRUE)
      [] filters = "flt_k1" -> DictResult([k |-> "1"])
      [] filters = "flt_k2" -> DictResult([k |-> "2"])
      [] filters = "flt_empty" -> DictResult(<<>>)
      [] filters = "flt_raise" -> RaiseResult

\* How a handler callback ends: it returns, raises an Exception, raises the
\* library's TelegramException (a BaseException), or never completes.
FunctionOutcome(function) ==
    CASE function = "boom" -> "Exception"
      [] function = "tg" -> "TelegramException"
      [] function = "hang" -> "never"
      [] OTHER -> "return"

\* What a middleware does with its continuation: "pass" awaits it once and
\* returns, "skip" returns without calling it, "raise" raises before it.
MiddlewareKind(m) ==
    CASE m = "S" -> "skip"
      [] m = "X" -> "raise"
      [] OTHER -> "pass"

\* How many times a middleware that passes the update on awaits its
\* continuation before it returns: D does it twice, T three times.
ContinuationCalls(m) ==
    CASE m = "D" -> 2
      [] m = "T" -> 3
      [] OTHER -> 1

\* A middleware whose name ends in 1 acts on the update with identifier 1
\* only and passes every other update on.
MiddlewareOn(m, update) ==
    CASE m = "S1" -> IF update.update_id = 1 THEN "skip" ELSE "pass"
      [] m = "X1" -> IF update.update_id = 1 THEN "raise" ELSE "pass"
      [] OTHER -> MiddlewareKind(m)

\* The exceptions of the registration API, with their messages.
RuntimeError == "RuntimeError"
UnsupportedUpdateType == "ValueError: Unsupported update type"
NotRegistered == "ValueError: is not registered as handler"

\* ---------------------------------------------------------------- state
VARIABLES
    updates_handlers,      \* Bot.__updates_handlers: kind -> set of Handler
    middlewares,           \* Bot.__middlewares (class level)
    prepared_middlewares,  \* self.__prepared_middlewares, per instance
    running,               \* self.__running, per instance
    start_pc,              \* where start() of each instance is suspended
    lifecycle,             \* the lifecycle state start() and stop() have led to
    next_id,               \* identity of the next Handler object
    raised,                \* what the last registration call raised
    poll_pc,               \* position of run_long_polling
    last_received_update_id,
    offset,                \* offset argument of the latest get_updates
    fetches,               \* get_updates calls made so far
    fetched,               \* identifiers received by the polling loop
    offsets,               \* the offset arguments of the get_updates calls, in order
    batches,               \* the identifiers of the batches received, in order
    tasks                  \* the units of work created by __handle_updates

vars ==
    <<updates_handlers, middlewares, prepared_middlewares, running, start_pc,
      lifecycle, next_id, raised, poll_pc, last_received_update_id, offset,
      fetches, fetched, offsets, batches, tasks>>

registry_vars == <<updates_handlers, middlewares, next_id>>
lifecycle_vars == <<prepared_middlewares, running, start_pc, lifecycle>>
polling_vars ==
    <<poll_pc, last_received_update_id, offset, fetches, fetched, offsets, batches>>

\* The state after the class body has run and the instances are constructed.
Init ==
    /\ updates_handlers = [t \in UpdateTypes |-> {}]
    /\ middlewares = <<>>
    /\ prepared_middlewares = [b \in Bots |-> <<>>]
    /\ running = [b \in Bots |-> FALSE]
    /\ start_pc = [b \in Bots |-> "idle"]
    /\ lifecycle = [b \in Bots |-> "NEW"]
    /\ next_id = 1
    /\ raised = "none"
    /\ poll_pc = "idle"
    /\ last_received_update_id = -1
    /\ offset = -1
    /\ fetches = 0
    /\ fetched = {}
    /\ offsets = <<>>
    /\ batches = <<>>
    /\ tasks = <<>>

\* ------------------------------------------------------------- registry
\* Handler.__init__: the object constructed by add_update_handler. The id
\* stands for the object's identity.
Handler(id, function, update_type, filters) ==
    [id |-> id, function |-> function, update_type |-> update_type,
     filters |-> filters]

\* Handler.__hash__ hashes the callback; Handler defines no __eq__, so two
\* handlers are equal only when they are the same object.
HandlerHash(h) == h.function
HandlerEq(a, b) == a.id = b.id

\* set.add: the element is added unless an equal one (same hash, ==) is there.
SetAdd(s, h) ==
    IF \E e \in s : HandlerHash(e) = HandlerHash(h) /\ HandlerEq(e, h)
    THEN s
    ELSE s \cup {h}

\* set.remove: KeyError when no equal element is there.
SetHas(s, h) == \E e \in s : HandlerHash(e) = HandlerHash(h) /\ HandlerEq(e, h)
\* A removal by hash alone: every handler of the same callback goes.
SetRemoveByHash(s, h) == {e \in s : HandlerHash(e) # HandlerHash(h)}

SetRemove(s, h) ==
    {e \in s : ~(HandlerHash(e) = HandlerHash(h) /\ HandlerEq(e, h))}

\* Bot.add_middleware
add_middleware(b, m) ==
    IF running[b]
    THEN /\ raised' = RuntimeError
         /\ UNCHANGED <<registry_vars, lifecycle_vars, polling_vars, tasks>>
    ELSE /\ Len(middlewares) < MaxMiddlewares
         /\ middlewares' = Append(middlewares, m)
         /\ raised' = "none"
         /\ UNCHANGED <<updates_handlers, next_id, lifecycle_vars, polling_vars,
                        tasks>>

\* add_update_handler without its test of the running flag.
add_update_handler_unguarded(b, function, update_type, filters) ==
    IF update_type \notin DOMAIN updates_handlers
    THEN /\ raised' = UnsupportedUpdateType
         /\ UNCHANGED <<registry_vars, lifecycle_vars, polling_vars, tasks>>
    ELSE /\ next_id <= MaxHandlers
         /\ updates_handlers' =
                [updates_handlers EXCEPT
                    ![update_type] =
                        SetAdd(@, Handler(next_id, function, update_type, filters))]
         /\ next_id' = next_id + 1
         /\ raised' = "none"
         /\ UNCHANGED <<middlewares, lifecycle_vars, polling_vars, tasks>>

\* add_update_handler without its test of the kind: an unknown kind gets a
\* handler set of its own.
add_update_handler_unvalidated(b, function, update_type, filters) ==
    IF running[b]
    THEN /\ raised' = RuntimeError
         /\ UNCHANGED <<registry_vars, lifecycle_vars, polling_vars, tasks>>
    ELSE /\ next_id <= MaxHandlers
         /\ updates_handlers' =
                [k \in DOMAIN updates_handlers \cup {update_type} |->
                    IF k = update_type
                    THEN SetAdd(IF k \in DOMAIN updates_handlers
                                THEN updates_handlers[k] ELSE {},
                                Handler(next_id, function, update_type, filters))
                    ELSE updates_handlers[k]]
         /\ next_id' = next_id + 1
         /\ raised' = "none"
         /\ UNCHANGED <<middlewares, lifecycle_vars, polling_vars, tasks>>

\* add_update_handler with a running flag kept on the class: it refuses
\* while any instance is running.
add_update_handler_class_flag(b, function, update_type, filters) ==
    IF \E o \in Bots : running[o]
    THEN /\ raised' = RuntimeError
         /\ UNCHANGED <<registry_vars, lifecycle_vars, polling_vars, tasks>>
    ELSE IF update_type \notin DOMAIN updates_handlers
    THEN /\ raised' = UnsupportedUpdateType
         /\ UNCHANGED <<registry_vars, lifecycle_vars, polling_vars, tasks>>
    ELSE /\ next_id <= MaxHandlers
         /\ updates_handlers' =
                [updates_handlers EXCEPT
                    ![update_type] =
                        SetAdd(@, Handler(next_id, function, update_type, filters))]
         /\ next_id' = next_id + 1
         /\ raised' = "none"
         /\ UNCHANGED <<middlewares, lifecycle_vars, polling_vars, tasks>>

\* Bot.add_update_handler
add_update_handler(b, function, update_type, filters) ==
    IF running[b]
    THEN /\ raised' = RuntimeError
         /\ UNCHANGED <<registry_vars, lifecycle_vars, polling_vars, tasks>>
    ELSE IF update_type \notin DOMAIN updates_handlers
    THEN /\ raised' = UnsupportedUpdateType
         /\ UNCHANGED <<registry_vars, lifecycle_vars, polling_vars, tasks>>
    ELSE /\ next_id <= MaxHandlers
         /\ updates_handlers' =
                [updates_handlers EXCEPT
                    ![update_type] =
                        SetAdd(@, Handler(next_id, function, update_type, filters))]
         /\ next_id' = next_id + 1
         /\ raised' = "none"
         /\ UNCHANGED <<middlewares, lifecycle_vars, polling_vars, tasks>>

\* Bot.remove_update_handler: no check of the running flag; a KeyError of
\* the dict lookup or of set.remove becomes a ValueError.
remove_update_handler(b, handler) ==
    IF /\ handler.update_type \in DOMAIN updates_handlers
       /\ SetHas(updates_handlers[handler.update_type], handler)
    THEN /\ updates_handlers' =
                [updates_handlers EXCEPT
                    ![handler.update_type] = SetRemove(@, handler)]
         /\ raised' = "none"
         /\ UNCHANGED <<middlewares, next_id, lifecycle_vars, polling_vars, tasks>>
    ELSE /\ raised' = NotRegistered
         /\ UNCHANGED <<registry_vars, lifecycle_vars, polling_vars, tasks>>

\* ------------------------------------------------------------ lifecycle
\* The list as it is, where reversed() turns it round.
NotReversed(s) == s

\* reversed(): the list back to front.
RECURSIVE Reversed(_)
Reversed(s) ==
    IF s = <<>> THEN <<>> ELSE Append(Reversed(Tail(s)), Head(s))

\* Bot.start up to its suspension in __prepare_webhook: the middleware list
\* is snapshotted by __prepare_middlewares_handlers.
start(b) ==
    /\ start_pc[b] = "idle"
    /\ prepared_middlewares' = [prepared_middlewares EXCEPT ![b] = Reversed(middlewares)]
    /\ start_pc' = [start_pc EXCEPT ![b] = "webhook"]
    /\ lifecycle' = [lifecycle EXCEPT ![b] = "STARTING"]
    /\ UNCHANGED <<registry_vars, running, raised, polling_vars, tasks>>

\* __prepare_webhook returns and start() sets the running flag.
start_finish(b) ==
    /\ start_pc[b] = "webhook"
    /\ running' = [running EXCEPT ![b] = TRUE]
    /\ start_pc' = [start_pc EXCEPT ![b] = "idle"]
    /\ lifecycle' = [lifecycle EXCEPT ![b] = "RUNNING"]
    /\ UNCHANGED <<registry_vars, prepared_middlewares, raised, polling_vars, tasks>>

\* set_webhook / delete_webhook fails: start() raises before the flag is set.
start_fails(b) ==
    /\ start_pc[b] = "webhook"
    /\ start_pc' = [start_pc EXCEPT ![b] = "idle"]
    /\ lifecycle' = [lifecycle EXCEPT ![b] = "FAILED"]
    /\ UNCHANGED <<registry_vars, prepared_middlewares, running, raised,
                   polling_vars, tasks>>

\* The lifecycle state after stop(): STOPPED once the instance has been
\* through start(); before start() and while start() is still suspended the
\* flag stop() clears was not set, and the state stays.
Stopped(state) == IF state \in {"NEW", "STARTING"} THEN state ELSE "STOPPED"

\* Bot.stop
stop(b) ==
    /\ running' = [running EXCEPT ![b] = FALSE]
    /\ lifecycle' = [lifecycle EXCEPT ![b] = Stopped(@)]
    /\ UNCHANGED <<registry_vars, prepared_middlewares, start_pc, raised,
                   polling_vars, tasks>>

\* -------------------------------------------------------------- polling
\* An Update: its identifier and the optional sub-update fields that are set.
Update(update_id, slots) == [update_id |-> update_id, slots |-> slots]

\* The batches getUpdates may answer: ascending identifiers, none below the
\* offset asked for.
RECURSIVE Ascending(_)
Ascending(ids) ==
    \/ Len(ids) <= 1
    \/ ids[1] < ids[2] /\ Ascending(Tail(ids))

IdBatches(from) ==
    {ids \in UNION {[1..n -> from..MaxUpdateId] : n \in 0..MaxBatch} : Ascending(ids)}

ServerBatches(from) ==
    {[i \in 1..Len(ids) |-> Update(ids[i], {"message"})] : ids \in IdBatches(from)}

\* Bot.run_long_polling is entered: last_received_update_id = -1.
run_long_polling(b) ==
    /\ poll_pc = "idle"
    /\ poll_pc' = "loop"
    /\ last_received_update_id' = -1
    /\ UNCHANGED <<registry_vars, lifecycle_vars, raised, offset, fetches, fetched,
                   offsets, batches, tasks>>

\* A loop that sends the last identifier received as the offset, without
\* adding one.
poll_loop_same_offset(b) ==
    /\ poll_pc = "loop"
    /\ IF running[b]
       THEN /\ fetches < MaxFetches
            /\ offset' = last_received_update_id
            /\ fetches' = fetches + 1
            /\ offsets' = Append(offsets, last_received_update_id)
            /\ poll_pc' = "fetch"
            /\ UNCHANGED <<running, lifecycle>>
       ELSE /\ running' = [running EXCEPT ![b] = FALSE]
            /\ lifecycle' = [lifecycle EXCEPT ![b] = Stopped(@)]
            /\ poll_pc' = "done"
            /\ UNCHANGED <<offset, fetches, offsets>>
    /\ UNCHANGED <<registry_vars, prepared_middlewares, start_pc, raised,
                   last_received_update_id, fetched, batches, tasks>>

\* A loop that does not test the running flag.
poll_loop_unconditional(b) ==
    /\ poll_pc = "loop"
    /\ fetches < MaxFetches
    /\ offset' = last_received_update_id + 1
    /\ fetches' = fetches + 1
    /\ offsets' = Append(offsets, last_received_update_id + 1)
    /\ poll_pc' = "fetch"
    /\ UNCHANGED <<registry_vars, lifecycle_vars, raised,
                   last_received_update_id, fetched, batches, tasks>>

\* The loop test. While the flag is set the next get_updates is sent with
\* offset = last_received_update_id + 1; otherwise the finally clause runs
\* stop() and the coroutine returns.
poll_loop(b) ==
    /\ poll_pc = "loop"
    /\ IF running[b]
       THEN /\ fetches < MaxFetches
            /\ offset' = last_received_update_id + 1
            /\ fetches' = fetches + 1
            /\ offsets' = Append(offsets, last_received_update_id + 1)
            /\ poll_pc' = "fetch"
            /\ UNCHANGED <<running, lifecycle>>
       ELSE /\ running' = [running EXCEPT ![b] = FALSE]
            /\ lifecycle' = [lifecycle EXCEPT ![b] = Stopped(@)]
            /\ poll_pc' = "done"
            /\ UNCHANGED <<offset, fetches, offsets>>
    /\ UNCHANGED <<registry_vars, prepared_middlewares, start_pc, raised,
                   last_received_update_id, fetched, batches, tasks>>

\* A loop body that takes the identifier of the first update of the batch
\* (updates[0]) where the code takes the last.
poll_fetched_first(b, updates) ==
    /\ poll_pc = "fetch"
    /\ last_received_update_id' =
           IF Len(updates) > 0
           THEN updates[1].update_id
           ELSE last_received_update_id
    /\ fetched' = fetched \cup {updates[i].update_id : i \in 1..Len(updates)}
    /\ batches' = Append(batches, [i \in 1..Len(updates) |-> updates[i].update_id])
    /\ poll_pc' = "loop"
    /\ UNCHANGED <<registry_vars, lifecycle_vars, raised, offset, fetches, offsets,
                   tasks>>

\* get_updates returns: the loop body up to asyncio.sleep. The batch is used
\* for last_received_update_id only.
poll_fetched(b, updates) ==
    /\ poll_pc = "fetch"
    /\ last_received_update_id' =
           IF Len(updates) > 0
           THEN updates[Len(updates)].update_id
           ELSE last_received_update_id
    /\ fetched' = fetched \cup {updates[i].update_id : i \in 1..Len(updates)}
    /\ batches' = Append(batches, [i \in 1..Len(updates) |-> updates[i].update_id])
    /\ poll_pc' = "loop"
    /\ UNCHANGED <<registry_vars, lifecycle_vars, raised, offset, fetches, offsets,
                   tasks>>

\* A loop that catches the exception of get_updates and goes round again.
poll_fails_retrying(b) ==
    /\ poll_pc = "fetch"
    /\ poll_pc' = "loop"
    /\ UNCHANGED <<registry_vars, lifecycle_vars, raised, last_received_update_id, offset,
                   fetches, fetched, offsets, batches, tasks>>

\* get_updates raises: the finally clause runs stop() and the exception
\* leaves run_long_polling.
poll_fails(b) ==
    /\ poll_pc = "fetch"
    /\ running' = [running EXCEPT ![b] = FALSE]
    /\ poll_pc' = "failed"
    /\ lifecycle' = [lifecycle EXCEPT ![b] = Stopped(@)]
    /\ UNCHANGED <<registry_vars, prepared_middlewares, start_pc, raised,
                   last_received_update_id, offset, fetches, fetched, offsets,
                   batches, tasks>>

\* ------------------------------------------------------------- dispatch
\* A dict as the set of its <<key, value>> items.
EmptyDict == {}
DictKeys(d) == {p[1] : p \in d}
\* d[key] = value
DictSet(d, key, value) == {p \in d : p[1] # key} \cup {<<key, value>>}
\* A merge that keeps the value of a key d already holds.
DictMergeKeep(d, e) == d \cup {p \in e : p[1] \notin DictKeys(d)}

\* d |= e: the items of e, and the items of d whose key e does not hold.
DictMerge(d, e) == {p \in d : p[1] \notin DictKeys(e)} \cup e
\* The dict a filter returned, as items.
DictItems(m) == {<<key, m[key]>> : key \in DOMAIN m}

\* A test for "is not False and is not None": every mapping passes it.
TruthyAnyDict(r) ==
    CASE r.tag = "bool" -> r.b
      [] r.tag = "dict" -> TRUE
      [] OTHER -> FALSE

\* bool(filter_result)
Truthy(r) ==
    CASE r.tag = "bool" -> r.b
      [] r.tag = "dict" -> DOMAIN r.d # {}
      [] OTHER -> FALSE

Finished == {"returned", "skipped", "caught", "escaped"}

\* The unit of work asyncio.create_task makes of __handle_update(update).
\* extra holds the EXTRA dict of each sub-update object of the update: a
\* pydantic field default, copied per model instance.
NewTask(b, update) ==
    [bot |-> b, update |-> update, pc |-> "created", chain |-> <<>>, depth |-> 0,
     hs |-> <<>>, extra |-> [k \in update.slots |-> EmptyDict], trace |-> <<>>,
     returned |-> <<>>, fanouts |-> 0, counts |-> <<>>]

\* __handle_updates awaiting __handle_update where it makes a task of it: the
\* dispatch of each update has run when the call returns.
handle_updates_awaited(b, updates) ==
    /\ Len(tasks) + Len(updates) <= MaxTasks
    /\ tasks' = tasks \o [i \in 1..Len(updates) |->
                            [NewTask(b, updates[i]) EXCEPT !.pc = "unwind"]]
    /\ UNCHANGED <<registry_vars, lifecycle_vars, raised, polling_vars>>

\* __handle_updates consulting the running flag: a batch received while the
\* flag is clear is refused.
handle_updates_if_running(b, updates) ==
    IF running[b]
    THEN /\ Len(tasks) + Len(updates) <= MaxTasks
         /\ tasks' = tasks \o [i \in 1..Len(updates) |-> NewTask(b, updates[i])]
         /\ UNCHANGED <<registry_vars, lifecycle_vars, raised, polling_vars>>
    ELSE /\ raised' = RuntimeError
         /\ UNCHANGED <<registry_vars, lifecycle_vars, polling_vars, tasks>>

\* Bot.__handle_updates (and __on_webhook_received, which only awaits it):
\* one task per update, in batch order; nothing is awaited.
handle_updates(b, updates) ==
    /\ Len(tasks) + Len(updates) <= MaxTasks
    /\ tasks' = tasks \o [i \in 1..Len(updates) |-> NewTask(b, updates[i])]
    /\ UNCHANGED <<registry_vars, lifecycle_vars, raised, polling_vars>>

\* The loop of __handle_update: call_next starts as the fan-out and each
\* middleware of the prepared list wraps what is there, so the last one of
\* the list is outermost. The chain is listed outermost first.
RECURSIVE ComposeChain(_)
ComposeChain(prepared) ==
    IF prepared = <<>>
    THEN <<>>
    ELSE <<prepared[Len(prepared)]>> \o ComposeChain(SubSeq(prepared, 1, Len(prepared) - 1))

\* Every kind of the registry, whether the update holds it or not.
ActiveKindsAll(update) == DOMAIN updates_handlers

\* A scan that stops at the first kind it finds set on the update.
ActiveKindsFirst(update) ==
    LET set == {k \in DOMAIN updates_handlers : k \in update.slots}
    IN IF set = {} THEN {} ELSE {CHOOSE k \in set : TRUE}

\* The kinds __call_handlers finds set on the update.
ActiveKinds(update) == {k \in DOMAIN updates_handlers : k \in update.slots}

\* __call_handlers up to its await: EXTRA["bot"] is set on every active
\* sub-update and one __call_handler coroutine is made per handler of its
\* kind.
FanOut(t) ==
    LET kinds == ActiveKinds(t.update)
        hset == UNION {updates_handlers[k] : k \in kinds}
    IN [t EXCEPT
          !.pc = "gather",
          !.hs = [h \in hset |-> [st |-> "pending", called |-> FALSE, seen |-> EmptyDict]],
          !.fanouts = @ + 1,
          !.counts = [h \in hset \cup DOMAIN t.counts |->
                        IF h \in DOMAIN t.counts THEN t.counts[h]
                        ELSE [evaluated |-> 0, invoked |-> 0]],
          !.extra = [k \in DOMAIN t.extra |->
                        IF k \in kinds THEN DictSet(t.extra[k], "bot", t.bot)
                        ELSE t.extra[k]]]

\* A dispatch that begins an update only when every update scheduled before
\* it is done, as a loop awaiting __handle_update would.
handle_update_in_turn(i) ==
    /\ i \in DOMAIN tasks
    /\ tasks[i].pc = "created"
    /\ \A j \in 1..(i - 1) : tasks[j].pc = "done"
    /\ LET t == tasks[i]
           prepared == prepared_middlewares[t.bot]
       IN tasks' =
            [tasks EXCEPT ![i] =
                IF Len(prepared) = 0
                THEN FanOut(t)
                ELSE [t EXCEPT !.pc = "chain", !.chain = ComposeChain(prepared)]]
    /\ UNCHANGED <<registry_vars, lifecycle_vars, raised, polling_vars>>

\* Bot.__handle_update starts: with no prepared middleware it runs the
\* fan-out at once, otherwise it composes the chain and calls it.
handle_update(i) ==
    /\ i \in DOMAIN tasks
    /\ tasks[i].pc = "created"
    /\ LET t == tasks[i]
           prepared == prepared_middlewares[t.bot]
       IN tasks' =
            [tasks EXCEPT ![i] =
                IF Len(prepared) = 0
                THEN FanOut(t)
                ELSE [t EXCEPT !.pc = "chain", !.chain = ComposeChain(prepared)]]
    /\ UNCHANGED <<registry_vars, lifecycle_vars, raised, polling_vars>>

\* A chain in which the exception of a middleware reaches the loop of
\* __handle_updates: the updates scheduled behind this one are lost with it.
middleware_enter_propagating(i) ==
    /\ i \in DOMAIN tasks
    /\ tasks[i].pc = "chain"
    /\ tasks[i].depth < Len(tasks[i].chain)
    /\ LET t == tasks[i]
           m == t.chain[t.depth + 1]
           entered == [t EXCEPT !.trace = Append(@, <<"enter", m>>)]
       IN tasks' =
            CASE MiddlewareOn(m, t.update) = "pass" ->
                    [tasks EXCEPT ![i] = [entered EXCEPT !.depth = @ + 1]]
              [] MiddlewareOn(m, t.update) = "skip" ->
                    [tasks EXCEPT ![i] =
                        [entered EXCEPT !.pc = "unwind",
                                        !.trace = Append(@, <<"exit", m>>)]]
              [] MiddlewareOn(m, t.update) = "raise" ->
                    [j \in DOMAIN tasks |->
                        IF j = i THEN [entered EXCEPT !.pc = "failed"]
                        ELSE IF j > i /\ tasks[j].pc # "done"
                        THEN [tasks[j] EXCEPT !.pc = "failed"]
                        ELSE tasks[j]]
    /\ UNCHANGED <<registry_vars, lifecycle_vars, raised, polling_vars>>

\* A chain in which a middleware that returns without calling its
\* continuation does not keep the next one from being called.
middleware_enter_falling_through(i) ==
    /\ i \in DOMAIN tasks
    /\ tasks[i].pc = "chain"
    /\ tasks[i].depth < Len(tasks[i].chain)
    /\ LET t == tasks[i]
           m == t.chain[t.depth + 1]
           entered == [t EXCEPT !.trace = Append(@, <<"enter", m>>)]
       IN tasks' =
            [tasks EXCEPT ![i] =
                CASE MiddlewareOn(m, t.update) = "pass" ->
                        [entered EXCEPT !.depth = @ + 1]
                  [] MiddlewareOn(m, t.update) = "skip" ->
                        [entered EXCEPT !.depth = @ + 1]
                  [] MiddlewareOn(m, t.update) = "raise" ->
                        [entered EXCEPT !.pc = "failed"]]
    /\ UNCHANGED <<registry_vars, lifecycle_vars, raised, polling_vars>>

\* A middleware of the chain is called. One that raises ends the task of
\* the update: nothing in __handle_update catches, the exception is kept by
\* the task that create_task made and no caller awaits that task.
middleware_enter(i) ==
    /\ i \in DOMAIN tasks
    /\ tasks[i].pc = "chain"
    /\ tasks[i].depth < Len(tasks[i].chain)
    /\ LET t == tasks[i]
           m == t.chain[t.depth + 1]
           entered == [t EXCEPT !.trace = Append(@, <<"enter", m>>)]
       IN tasks' =
            [tasks EXCEPT ![i] =
                CASE MiddlewareOn(m, t.update) = "pass" ->
                        [entered EXCEPT !.depth = @ + 1]
                  [] MiddlewareOn(m, t.update) = "skip" ->
                        [entered EXCEPT !.pc = "unwind",
                                        !.trace = Append(@, <<"exit", m>>)]
                  [] MiddlewareOn(m, t.update) = "raise" ->
                        [entered EXCEPT !.pc = "failed"]]
    /\ UNCHANGED <<registry_vars, lifecycle_vars, raised, polling_vars>>

\* The innermost continuation __fn runs __call_handlers.
call_handlers(i) ==
    /\ i \in DOMAIN tasks
    /\ tasks[i].pc = "chain"
    /\ tasks[i].depth = Len(tasks[i].chain)
    /\ tasks' = [tasks EXCEPT ![i] = FanOut(tasks[i])]
    /\ UNCHANGED <<registry_vars, lifecycle_vars, raised, polling_vars>>

\* Handler.__call__ without the test of the filter's result: the callback is
\* called whatever the filter returned.
HandlerCalledUngated(t, h) ==
    LET k == h.update_type
        r == IF h.filters = NoFilter THEN BoolResult(TRUE) ELSE FilterResult(h.filters)
        extra == IF r.tag = "dict"
                 THEN DictMerge(t.extra[k], DictItems(r.d))
                 ELSE t.extra[k]
    IN IF r.tag = "raise"
       THEN [t EXCEPT !.hs[h].st = "caught"]
       ELSE [t EXCEPT !.hs[h] = [st |-> "running", called |-> TRUE, seen |-> extra],
                      !.extra[k] = extra,
                      !.trace = Append(@, <<"call", h.function>>)]

\* A Handler.__call__ whose filter is awaited outside the try of
\* __call_handler: the exception of a filter ends the handler's task.
HandlerCalledFilterUnguarded(t, h) ==
    LET k == h.update_type
        r == FilterResult(h.filters)
        invoke(extra) ==
            [t EXCEPT !.hs[h] = [st |-> "running", called |-> TRUE, seen |-> extra],
                      !.extra[k] = extra,
                      !.trace = Append(@, <<"call", h.function>>)]
    IN IF h.filters = NoFilter
       THEN invoke(t.extra[k])
       ELSE IF r.tag = "raise"
       THEN [t EXCEPT !.hs[h].st = "escaped"]
       ELSE IF ~Truthy(r)
       THEN [t EXCEPT !.hs[h].st = "skipped"]
       ELSE IF r.tag = "dict"
       THEN invoke(DictMerge(t.extra[k], DictItems(r.d)))
       ELSE invoke(t.extra[k])

\* Handler.__call__ from its start to the call of the callback: the filter
\* is awaited, a falsy result returns, a dict result is merged into EXTRA,
\* and the callback is called with the sub-update.
HandlerCalled(t, h) ==
    LET k == h.update_type
        r == FilterResult(h.filters)
        invoke(extra) ==
            [t EXCEPT !.hs[h] = [st |-> "running", called |-> TRUE, seen |-> extra],
                      !.extra[k] = extra,
                      !.trace = Append(@, <<"call", h.function>>)]
    IN IF h.filters = NoFilter
       THEN invoke(t.extra[k])
       ELSE IF r.tag = "raise"
       THEN [t EXCEPT !.hs[h].st = "caught"]
       ELSE IF ~Truthy(r)
       THEN [t EXCEPT !.hs[h].st = "skipped"]
       ELSE IF r.tag = "dict"
       THEN invoke(DictMerge(t.extra[k], DictItems(r.d)))
       ELSE invoke(t.extra[k])

\* What one run of Handler.__call__ adds to the counts of the task: an
\* evaluation of the filter if the handler has one, an invocation of the
\* callback if the run reached it.
Counted(t, h) ==
    [t EXCEPT !.counts[h] =
        [evaluated |-> @.evaluated + (IF h.filters = NoFilter THEN 0 ELSE 1),
         invoked |-> @.invoked + (IF t.hs[h].called THEN 1 ELSE 0)]]

\* Bot.__call_handler runs one handler of the fan-out.
call_handler(i, h) ==
    /\ i \in DOMAIN tasks
    /\ tasks[i].pc = "gather"
    /\ h \in DOMAIN tasks[i].hs
    /\ tasks[i].hs[h].st = "pending"
    /\ tasks' = [tasks EXCEPT ![i] = Counted(HandlerCalled(tasks[i], h), h)]
    /\ UNCHANGED <<registry_vars, lifecycle_vars, raised, polling_vars>>

\* The callback ends. An Exception is caught and logged by __call_handler;
\* a TelegramException is a BaseException, passes the except clause and
\* ends the handler's task.
handler_finish(i, h) ==
    /\ i \in DOMAIN tasks
    /\ h \in DOMAIN tasks[i].hs
    /\ tasks[i].hs[h].st = "running"
    /\ FunctionOutcome(h.function) # "never"
    /\ tasks' =
         [tasks EXCEPT ![i].hs[h].st =
             CASE FunctionOutcome(h.function) = "return" -> "returned"
               [] FunctionOutcome(h.function) = "Exception" -> "caught"
               [] FunctionOutcome(h.function) = "TelegramException" -> "escaped"]
    /\ UNCHANGED <<registry_vars, lifecycle_vars, raised, polling_vars>>

\* asyncio.gather(*tasks): with return_exceptions an exception of a child is
\* one of the results; without it the first one is raised to the caller
\* while the other children run on.
GatherRaising(hs) ==
    IF \E h \in DOMAIN hs : hs[h].st = "escaped"
    THEN "raise"
    ELSE IF \A h \in DOMAIN hs : hs[h].st \in Finished THEN "result" ELSE "pending"

\* A wait that returns with the first child that has finished
\* (asyncio.wait with FIRST_COMPLETED).
GatherFirstCompleted(hs) ==
    IF DOMAIN hs = {} \/ \E h \in DOMAIN hs : hs[h].st \in Finished
    THEN "result"
    ELSE "pending"

\* asyncio.gather(*tasks, return_exceptions=True)
Gather(hs) ==
    IF \A h \in DOMAIN hs : hs[h].st \in Finished THEN "result" ELSE "pending"

\* The await of __call_handlers ends and the fan-out returns to its caller.
gather_done(i) ==
    /\ i \in DOMAIN tasks
    /\ tasks[i].pc = "gather"
    /\ Gather(tasks[i].hs) # "pending"
    /\ tasks' =
         [tasks EXCEPT ![i].pc =
             IF Gather(tasks[i].hs) = "raise" THEN "failed" ELSE "unwind"]
    /\ UNCHANGED <<registry_vars, lifecycle_vars, raised, polling_vars>>

\* A continuation that runs once: a middleware that awaits it again gets
\* the first result back and the fan-out is not run again.
middleware_exit_once(i) ==
    /\ i \in DOMAIN tasks
    /\ tasks[i].pc = "unwind"
    /\ tasks[i].depth > 0
    /\ LET t == tasks[i]
       IN tasks' =
            [tasks EXCEPT ![i] =
                [t EXCEPT !.depth = @ - 1,
                          !.trace = Append(@, <<"exit", t.chain[t.depth]>>)]]
    /\ UNCHANGED <<registry_vars, lifecycle_vars, raised, polling_vars>>

\* How many times the continuation of the middleware at depth d has
\* returned to it since that middleware was entered.
Returned(t, d) == IF d \in DOMAIN t.returned THEN t.returned[d] ELSE 0

\* The continuation returned to the middleware that awaited it. The
\* middleware returns, or awaits the continuation once more: call_next is
\* the same partial object, and calling it again runs everything inside it
\* again, down to __call_handlers.
middleware_exit(i) ==
    /\ i \in DOMAIN tasks
    /\ tasks[i].pc = "unwind"
    /\ tasks[i].depth > 0
    /\ LET t == tasks[i]
           d == t.depth
       IN tasks' =
            [tasks EXCEPT ![i] =
                IF Returned(t, d) + 1 < ContinuationCalls(t.chain[d])
                THEN [t EXCEPT !.pc = "chain",
                               !.returned = [j \in 1..d |->
                                               IF j = d THEN Returned(t, d) + 1
                                               ELSE Returned(t, j)]]
                ELSE [t EXCEPT !.depth = @ - 1,
                               !.returned = [j \in 1..(d - 1) |-> Returned(t, j)],
                               !.trace = Append(@, <<"exit", t.chain[d]>>)]]
    /\ UNCHANGED <<registry_vars, lifecycle_vars, raised, polling_vars>>

\* __handle_update returns and the task ends.
handle_update_done(i) ==
    /\ i \in DOMAIN tasks
    /\ tasks[i].pc = "unwind"
    /\ tasks[i].depth = 0
    /\ tasks' = [tasks EXCEPT ![i].pc = "done"]
    /\ UNCHANGED <<registry_vars, lifecycle_vars, raised, polling_vars>>

\* ------------------------------------------------------- specifications
\* The instance that is started, polls and receives updates; the other
\* instance is constructed and only registers.
Primary == "bot1"

Middlewares == {"A", "B"}

\* The arguments of add_update_handler: callback, kind, filter.
LifecycleInputs ==
    {<<"f", "message", NoFilter>>, <<"g", "poll", "flt_true">>,
     <<"f", "bogus", NoFilter>>}

FanoutInputs ==
    {<<"f", "message", NoFilter>>, <<"g", "poll", NoFilter>>,
     <<"boom", "message", NoFilter>>, <<"tg", "message", NoFilter>>,
     <<"f", "message", "flt_raise">>}

FilterInputs ==
    {<<"f", "message", NoFilter>>, <<"g", "message", "flt_k1">>,
     <<"g", "message", "flt_k2">>, <<"f", "message", "flt_false">>,
     <<"f", "message", "flt_true">>}

ChainInputs == {<<"H", "message", NoFilter>>}

\* The Handler objects a caller may hold and pass to remove_update_handler.
HandlerObjects(inputs) ==
    {Handler(id, r[1], r[2], r[3]) : id \in 1..MaxHandlers, r \in inputs}

FanoutUpdates == {Update(1, {"message"}), Update(1, {"poll"})}

Register(bots, inputs) ==
    \E b \in bots, r \in inputs : add_update_handler(b, r[1], r[2], r[3])

Unregister(bots, inputs) ==
    \E b \in bots, h \in HandlerObjects(inputs) : remove_update_handler(b, h)

AddMiddleware(bots, ms) ==
    \E b \in bots, m \in ms : add_middleware(b, m)

Lifecycle ==
    \/ start(Primary)
    \/ start_finish(Primary)
    \/ start_fails(Primary)
    \/ stop(Primary)

Polling ==
    \/ run_long_polling(Primary)
    \/ poll_loop(Primary)
    \/ \E updates \in ServerBatches(offset) : poll_fetched(Primary, updates)
    \/ poll_fails(Primary)

\* A webhook delivery of one update to the running instance.
Deliver(updates) ==
    \E u \in updates :
        /\ running[Primary]
        /\ Len(tasks) < MaxUpdates
        /\ handle_updates(Primary, <<u>>)

FanOutSteps ==
    \/ \E i \in DOMAIN tasks : handle_update(i)
    \/ \E i \in DOMAIN tasks : \E h \in DOMAIN tasks[i].hs : call_handler(i, h)
    \/ \E i \in DOMAIN tasks : \E h \in DOMAIN tasks[i].hs : handler_finish(i, h)
    \/ \E i \in DOMAIN tasks : gather_done(i)
    \/ \E i \in DOMAIN tasks : handle_update_done(i)

ChainSteps ==
    \/ \E i \in DOMAIN tasks : middleware_enter(i)
    \/ \E i \in DOMAIN tasks : call_handlers(i)
    \/ \E i \in DOMAIN tasks : middleware_exit(i)

\* Registration and the lifecycle: both instances register, the primary one
\* is started and stopped.
NextLifecycle ==
    \/ Register(Bots, LifecycleInputs)
    \/ Unregister(Bots, LifecycleInputs)
    \/ AddMiddleware(Bots, Middlewares)
    \/ Lifecycle

SpecLifecycle == Init /\ [][NextLifecycle]_vars

\* Polling mode: the primary instance is started and runs the polling loop.
NextPolling ==
    \/ Lifecycle
    \/ Polling

SpecPolling == Init /\ [][NextPolling]_vars

\* Webhook mode without middleware: handlers are registered, the instance
\* is started and an update is delivered and fanned out.
NextFanout ==
    \/ Register({Primary}, FanoutInputs)
    \/ start(Primary)
    \/ start_finish(Primary)
    \/ Deliver(FanoutUpdates)
    \/ FanOutSteps

SpecFanout == Init /\ [][NextFanout]_vars

\* Webhook mode without middleware, with handlers behind filters.
NextFilter ==
    \/ Register({Primary}, FilterInputs)
    \/ start(Primary)
    \/ start_finish(Primary)
    \/ Deliver({Update(1, {"message"})})
    \/ FanOutSteps

SpecFilter == Init /\ [][NextFilter]_vars

\* Webhook mode with middleware around one handler.
NextChain ==
    \/ Register({Primary}, ChainInputs)
    \/ AddMiddleware({Primary}, Middlewares)
    \/ start(Primary)
    \/ start_finish(Primary)
    \/ Deliver({Update(1, {"message"})})
    \/ FanOutSteps
    \/ ChainSteps

SpecChain == Init /\ [][NextChain]_vars

\* Webhook mode with batches of updates and middlewares that skip or raise
\* on the update with identifier 1.
BatchMiddlewares == {"S1", "X1"}

BatchUpdates == {Update(1, {"message"}), Update(2, {"message"})}

\* The bodies of a webhook request: lists of different updates.
Batches ==
    {us \in UNION {[1..n -> BatchUpdates] : n \in 1..MaxBatch} :
        \A j, k \in 1..Len(us) : j # k => us[j] # us[k]}

DeliverBatch ==
    \E updates \in Batches : running[Primary] /\ handle_updates(Primary, updates)

\* One handler is registered in this scenario.
RegisterOne(inputs) ==
    /\ \A k \in DOMAIN updates_handlers : updates_handlers[k] = {}
    /\ Register({Primary}, inputs)

\* Each middleware is registered once.
AddMiddlewareOnce(ms) ==
    \E m \in ms :
        /\ \A j \in 1..Len(middlewares) : middlewares[j] # m
        /\ add_middleware(Primary, m)

NextBatch ==
    \/ RegisterOne(ChainInputs)
    \/ AddMiddlewareOnce(BatchMiddlewares)
    \/ start(Primary)
    \/ start_finish(Primary)
    \/ DeliverBatch
    \/ FanOutSteps
    \/ ChainSteps

SpecBatch == Init /\ [][NextBatch]_vars

\* Stopping: the primary instance polls a server that answers with nothing
\* or with the one update of the offset asked for, receives an update by
\* webhook, and is stopped at any moment. The event loop runs every task
\* that is ready, so a dispatch step that stays possible is taken.
NextUpdates(from) ==
    {us \in ServerBatches(from) :
        Len(us) = 0 \/ (Len(us) = 1 /\ us[1].update_id = from)}

PollingNext ==
    \/ run_long_polling(Primary)
    \/ poll_loop(Primary)
    \/ \E updates \in NextUpdates(offset) : poll_fetched(Primary, updates)
    \/ poll_fails(Primary)

NextStop ==
    \/ RegisterOne(ChainInputs)
    \/ Lifecycle
    \/ PollingNext
    \/ Deliver({Update(1, {"message"})})
    \/ FanOutSteps

SpecStop == Init /\ [][NextStop]_vars /\ WF_vars(FanOutSteps)

\* A handler that never completes: the callback hang is registered for
\* "message" and a callback that returns for "poll"; a message update and a
\* poll update are delivered. The event loop runs every task that is ready.
HangInputs == {<<"hang", "message", NoFilter>>, <<"f", "poll", NoFilter>>}

HangUpdates == {Update(1, {"message"}), Update(2, {"poll"})}

HangBatches ==
    {us \in UNION {[1..n -> HangUpdates] : n \in 1..MaxBatch} :
        \A j, k \in 1..Len(us) : j # k => us[j] # us[k]}

\* Each callback is registered once for its kind.
RegisterEach(inputs) ==
    \E r \in inputs :
        /\ r[2] \in DOMAIN updates_handlers
             => \A h \in updates_handlers[r[2]] : h.function # r[1]
        /\ add_update_handler(Primary, r[1], r[2], r[3])

NextHang ==
    \/ RegisterEach(HangInputs)
    \/ start(Primary)
    \/ start_finish(Primary)
    \/ \E updates \in HangBatches :
          running[Primary] /\ handle_updates(Primary, updates)
    \/ FanOutSteps

SpecHang == Init /\ [][NextHang]_vars /\ WF_vars(FanOutSteps)

\* Malformed updates: one with two sub-updates set and one with none.
MalformedInputs == {<<"f", "message", NoFilter>>, <<"g", "poll", NoFilter>>}

MalformedUpdates == {Update(1, {"message", "poll"}), Update(2, {})}

MalformedBatches ==
    {us \in UNION {[1..n -> MalformedUpdates] : n \in 1..MaxBatch} :
        \A j, k \in 1..Len(us) : j # k => us[j] # us[k]}

NextMalformed ==
    \/ RegisterEach(MalformedInputs)
    \/ start(Primary)
    \/ start_finish(Primary)
    \/ \E updates \in MalformedBatches :
          running[Primary] /\ handle_updates(Primary, updates)
    \/ FanOutSteps

SpecMalformed == Init /\ [][NextMalformed]_vars

\* Two instances: the secondary one is never started and does all the
\* registering, the primary one is started and receives the updates.
Secondary == "bot2"

\* The secondary instance registers each callback and each middleware once.
RegisterShared(inputs) ==
    \E r \in inputs :
        /\ \A h \in updates_handlers[r[2]] : h.function # r[1]
        /\ add_update_handler(Secondary, r[1], r[2], r[3])

AddMiddlewareShared(ms) ==
    \E m \in ms :
        /\ \A j \in 1..Len(middlewares) : middlewares[j] # m
        /\ add_middleware(Secondary, m)

NextShared ==
    \/ RegisterShared(ChainInputs)
    \/ AddMiddlewareShared({"A"})
    \/ start(Primary)
    \/ start_finish(Primary)
    \/ \E u \in {Update(1, {"message"})} :
          running[Primary] /\ handle_updates(Primary, <<u>>)
    \/ FanOutSteps
    \/ ChainSteps

SpecShared == Init /\ [][NextShared]_vars

\* Pushes outside the running state. The route of __prepare_webhook stays
\* mounted once a start() has completed: update 1 is pushed after stop(),
\* update 2 while a later start() is still suspended in __prepare_webhook.
PushUpdate(state) == Update(IF state = "STOPPED" THEN 1 ELSE 2, {"message"})

on_webhook_received ==
    \/ /\ lifecycle[Primary] = "STOPPED"
       /\ handle_updates(Primary, <<PushUpdate("STOPPED")>>)
    \/ /\ lifecycle[Primary] = "STARTING"
       /\ Len(tasks) >= 1
       /\ handle_updates(Primary, <<PushUpdate("STARTING")>>)

NextPush ==
    \/ RegisterEach(ChainInputs)
    \/ start(Primary)
    \/ start_finish(Primary)
    \/ stop(Primary)
    \/ on_webhook_received
    \/ FanOutSteps

SpecPush == Init /\ [][NextPush]_vars

\* Webhook mode without middleware: a handler behind a filter that returns
\* an empty dict next to one behind a filter that returns {"k": "1"}.
EmptyInputs == {<<"f", "message", "flt_empty">>, <<"g", "message", "flt_k1">>}

NextEmpty ==
    \/ RegisterEach(EmptyInputs)
    \/ start(Primary)
    \/ start_finish(Primary)
    \/ running[Primary] /\ handle_updates(Primary, <<Update(1, {"message"})>>)
    \/ FanOutSteps

SpecEmpty == Init /\ [][NextEmpty]_vars

\* Webhook mode behind middlewares that await their continuation once (A),
\* twice (D) or three times (T), with handlers behind filters.
RepeatMiddlewares == {"A", "D", "T"}

RepeatInputs ==
    {<<"f", "message", "flt_true">>, <<"g", "message", "flt_false">>}

NextRepeat ==
    \/ RegisterEach(RepeatInputs)
    \/ AddMiddlewareOnce(RepeatMiddlewares)
    \/ start(Primary)
    \/ start_finish(Primary)
    \/ Deliver({Update(1, {"message"})})
    \/ FanOutSteps
    \/ ChainSteps

SpecRepeat == Init /\ [][NextRepeat]_vars

AllInputs == LifecycleInputs \cup FanoutInputs \cup FilterInputs \cup ChainInputs

\* The whole machine.
Next ==
    \/ Register(Bots, AllInputs)
    \/ Unregister(Bots, AllInputs)
    \/ AddMiddleware(Bots, Middlewares \cup {"S", "X"})
    \/ Lifecycle
    \/ Polling
    \/ \E u \in FanoutUpdates : handle_updates(Primary, <<u>>)
    \/ FanOutSteps
    \/ ChainSteps

Spec == Init /\ [][Next]_vars

\* ---------------------------------------------------------- properties
\* The task's update holds exactly one sub-update.
OneSlot(t) == Cardinality(t.update.slots) = 1

\* The handler's filter returned this (a handler without filter has none).
HasFilter(h) == h.filters # NoFilter
ReturnsDict(h) == HasFilter(h) /\ FilterResult(h.filters).tag = "dict"
ReturnsFalsy(h) ==
    /\ HasFilter(h)
    /\ FilterResult(h.filters).tag # "raise"
    /\ ~Truthy(FilterResult(h.filters))

\* C1: for an update with exactly one sub-update set, the fan-out makes a
\* call of every handler registered for that kind and of no handler of
\* another kind, and it returns only when each of them has been run.
C1_FanOutInvokesExactlyTheKind ==
    /\ [](\A i \in DOMAIN tasks :
            (OneSlot(tasks[i]) /\ tasks[i].pc \in {"unwind", "done"})
            => \A h \in DOMAIN tasks[i].hs :
                  /\ h.update_type \in tasks[i].update.slots
                  /\ tasks[i].hs[h].st # "pending")
    /\ [][\A i \in DOMAIN tasks :
            (/\ OneSlot(tasks[i])
             /\ tasks[i].pc \in {"created", "chain"}
             /\ tasks'[i].pc = "gather")
            => \A k \in tasks[i].update.slots :
                  DOMAIN tasks'[i].hs = updates_handlers[k]]_vars

\* A message update was fanned out to the message handlers while a poll
\* handler was registered too.
C1_Witness ==
    \E i \in DOMAIN tasks :
        /\ tasks[i].pc = "done"
        /\ tasks[i].update.slots = {"message"}
        /\ updates_handlers["poll"] # {}
        /\ updates_handlers["message"] # {}
        /\ DOMAIN tasks[i].hs = updates_handlers["message"]

\* C2: once the polling loop has gone through its body, every update the
\* fetch returned has a unit of work made for it by __handle_updates.
C2_FetchedBatchIsDispatched ==
    poll_pc = "loop" =>
        \A id \in fetched : \E i \in DOMAIN tasks : tasks[i].update.update_id = id

\* C3: a handler whose callback or filter raises leaves its siblings as they
\* are and the fan-out waiting; the fan-out returns only when every handler
\* has finished, and no exception of a handler ends the update's task.
C3_RaisingHandlerIsIsolated ==
    /\ [](\A i \in DOMAIN tasks :
            /\ tasks[i].pc # "failed"
            /\ tasks[i].pc \in {"unwind", "done"}
               => \A h \in DOMAIN tasks[i].hs : tasks[i].hs[h].st \in Finished)
    /\ [][\A i \in DOMAIN tasks : \A h \in DOMAIN tasks[i].hs :
            (/\ tasks[i].hs[h].st \notin {"caught", "escaped"}
             /\ tasks'[i].hs[h].st \in {"caught", "escaped"})
            => /\ tasks'[i].pc = tasks[i].pc
               /\ \A g \in DOMAIN tasks[i].hs \ {h} :
                     tasks'[i].hs[g] = tasks[i].hs[g]]_vars

\* The update's task ended normally with one handler's TelegramException
\* collected by gather and a sibling handler returned.
C3_Witness ==
    \E i \in DOMAIN tasks :
        /\ tasks[i].pc = "done"
        /\ \E h \in DOMAIN tasks[i].hs : tasks[i].hs[h].st = "escaped"
        /\ \E h \in DOMAIN tasks[i].hs : tasks[i].hs[h].st = "returned"

\* r is s back to front.
IsReverse(r, s) ==
    /\ Len(r) = Len(s)
    /\ \A j \in 1..Len(s) : r[j] = s[Len(s) + 1 - j]

\* The events of a finished dispatch: the middlewares enter in registration
\* order, the handlers are called, the middlewares exit in the opposite order.
NestedTrace(t) ==
    LET n == Len(t.chain)
        m == Len(t.trace)
    IN /\ n <= Len(middlewares)
       /\ m = 2 * n + Cardinality(DOMAIN t.hs)
       /\ \A j \in 1..n : t.trace[j] = <<"enter", middlewares[j]>>
       /\ \A j \in (n + 1)..(m - n) : t.trace[j][1] = "call"
       /\ \A j \in 1..n : t.trace[m - n + j] = <<"exit", middlewares[n + 1 - j]>>

\* C4: start() snapshots the whole middleware list, a dispatch runs every
\* snapshotted middleware, and the events of a dispatch are nested in
\* registration order: the first registered enters first and exits last,
\* the last registered wraps the calls of the handlers.
C4_MiddlewareOrder ==
    /\ [](\A i \in DOMAIN tasks : tasks[i].pc = "done" => NestedTrace(tasks[i]))
    /\ [][/\ \A b \in Bots :
                prepared_middlewares'[b] # prepared_middlewares[b]
                => IsReverse(prepared_middlewares'[b], middlewares)
          /\ \A i \in DOMAIN tasks :
                (tasks[i].pc = "created" /\ tasks'[i].pc # "created")
                => Len(tasks'[i].chain) = Len(prepared_middlewares[tasks[i].bot])]_vars

\* A registered before B, handler H: A-enter, B-enter, H, B-exit, A-exit.
C4_Witness ==
    \E i \in DOMAIN tasks :
        /\ tasks[i].pc = "done"
        /\ middlewares = <<"A", "B">>
        /\ tasks[i].trace =
             << <<"enter", "A">>, <<"enter", "B">>, <<"call", "H">>,
                <<"exit", "B">>, <<"exit", "A">> >>

\* C5: a handler without filter has its callback called once it is run; a
\* handler whose filter returns a falsy result never has, and the step that
\* skips it leaves EXTRA of the update as it was.
C5_FilterGating ==
    /\ [](\A i \in DOMAIN tasks : \A h \in DOMAIN tasks[i].hs :
            /\ (~HasFilter(h) /\ tasks[i].hs[h].st # "pending")
               => tasks[i].hs[h].called
            /\ ReturnsFalsy(h)
               => (~tasks[i].hs[h].called /\ tasks[i].hs[h].st \in {"pending", "skipped"}))
    /\ [][\A i \in DOMAIN tasks : \A h \in DOMAIN tasks[i].hs :
            (tasks[i].hs[h].st = "pending" /\ tasks'[i].hs[h].st = "skipped")
            => tasks'[i].extra = tasks[i].extra]_vars

\* A fan-out ended with an unfiltered handler called and a handler behind a
\* False filter skipped.
C5_Witness ==
    \E i \in DOMAIN tasks :
        /\ tasks[i].pc = "done"
        /\ \E h \in DOMAIN tasks[i].hs : ~HasFilter(h) /\ tasks[i].hs[h].called
        /\ \E h \in DOMAIN tasks[i].hs :
              h.filters = "flt_false" /\ tasks[i].hs[h].st = "skipped"

\* C6: a callback behind a filter that returned a dict is called with an
\* EXTRA that holds every item of the dict (a key EXTRA already held has the
\* filter's value) and still holds "bot"; a filter that returned another
\* truthy value leaves EXTRA as it was when its callback is called.
C6_FilterEnrichment ==
    /\ [](\A i \in DOMAIN tasks : \A h \in DOMAIN tasks[i].hs :
            tasks[i].hs[h].called =>
               /\ <<"bot", tasks[i].bot>> \in tasks[i].hs[h].seen
               /\ ReturnsDict(h) =>
                     \A key \in DOMAIN FilterResult(h.filters).d :
                        /\ key \in DictKeys(tasks[i].hs[h].seen)
                        /\ \A p \in tasks[i].hs[h].seen :
                              p[1] = key => p[2] = FilterResult(h.filters).d[key])
    /\ [][\A i \in DOMAIN tasks : \A h \in DOMAIN tasks[i].hs :
            (/\ tasks[i].hs[h].st = "pending"
             /\ tasks'[i].hs[h].called
             /\ ~ReturnsDict(h))
            => tasks'[i].extra = tasks[i].extra]_vars

\* Two callbacks behind filters returning {"k": "1"} and {"k": "2"} were
\* called for one update, each with its own value of k: one of the merges
\* overwrote the key.
C6_Witness ==
    \E i \in DOMAIN tasks :
        \E h1 \in DOMAIN tasks[i].hs, h2 \in DOMAIN tasks[i].hs :
            /\ h1.filters = "flt_k1" /\ <<"k", "1">> \in tasks[i].hs[h1].seen
            /\ h2.filters = "flt_k2" /\ <<"k", "2">> \in tasks[i].hs[h2].seen

\* C7: the EXTRA a callback is called with holds no key written by the
\* filter of a sibling handler: only "bot" and the keys of its own filter.
C7_ExtraNotLeaked ==
    \A i \in DOMAIN tasks : \A h \in DOMAIN tasks[i].hs :
        tasks[i].hs[h].called =>
            \A key \in DictKeys(tasks[i].hs[h].seen) :
                \/ key = "bot"
                \/ ReturnsDict(h) /\ key \in DOMAIN FilterResult(h.filters).d

\* C8: a call of add_update_handler or add_middleware on an instance whose
\* running flag is set raises RuntimeError and leaves the registry and the
\* middleware list as they were.
C8_RegisterWhileRunningFails ==
    [][\A b \in Bots :
          running[b] =>
             /\ \A r \in AllInputs :
                   add_update_handler(b, r[1], r[2], r[3])
                   => /\ raised' = "RuntimeError"
                      /\ UNCHANGED <<updates_handlers, middlewares>>
             /\ \A m \in Middlewares :
                   add_middleware(b, m)
                   => /\ raised' = "RuntimeError"
                      /\ UNCHANGED <<updates_handlers, middlewares>>]_vars

\* The running instance refused a registration; handlers and a middleware
\* registered before are in place.
C8_Witness ==
    /\ running[Primary]
    /\ raised = "RuntimeError"
    /\ middlewares # <<>>
    /\ updates_handlers["message"] # {}

\* C9: remove_update_handler of a registered handler, called on an instance
\* that has left the NEW state, raises RuntimeError and removes nothing.
C9_UnregisterAfterStartFails ==
    [][\A b \in Bots :
          \A h \in UNION {updates_handlers[t] : t \in DOMAIN updates_handlers} :
          (lifecycle[b] # "NEW" /\ remove_update_handler(b, h))
          => /\ raised' = "RuntimeError"
             /\ updates_handlers' = updates_handlers]_vars

\* C10: on an instance that stop() has brought to STOPPED, every call of
\* add_update_handler and add_middleware, and every call of
\* remove_update_handler for a registered handler, raises RuntimeError.
C10_RegistrationOnlyWhenNew ==
    [][\A b \in Bots :
          lifecycle[b] = "STOPPED" =>
             /\ \A r \in AllInputs :
                   add_update_handler(b, r[1], r[2], r[3]) => raised' = "RuntimeError"
             /\ \A m \in Middlewares :
                   add_middleware(b, m) => raised' = "RuntimeError"
             /\ \A h \in UNION {updates_handlers[t] : t \in DOMAIN updates_handlers} :
                   remove_update_handler(b, h) => raised' = "RuntimeError"]_vars

\* C11: add_update_handler with a kind that is not a key of the registry,
\* called on an instance that is not running, raises the ValueError of an
\* unsupported update type, constructs no handler and leaves every handler
\* set as it was; the registry never gets a key outside the thirteen kinds.
C11_UnknownKindIsRejected ==
    /\ [](DOMAIN updates_handlers = UpdateTypes)
    /\ [][\A b \in Bots : \A r \in AllInputs :
            (/\ r[2] \notin UpdateTypes
             /\ ~running[b]
             /\ add_update_handler(b, r[1], r[2], r[3]))
            => /\ raised' = UnsupportedUpdateType
               /\ updates_handlers' = updates_handlers
               /\ next_id' = next_id]_vars

\* A registration with an unknown kind was refused while a handler
\* registered before is in place.
C11_Witness ==
    /\ raised = UnsupportedUpdateType
    /\ updates_handlers["message"] # {}
    /\ ~running[Primary]

\* C12: remove_update_handler of a handler that is in the set of its kind
\* removes that handler and no other and raises nothing; of a handler that
\* is not there (never registered, already removed, unknown kind) it raises
\* the ValueError of an unregistered handler and leaves the registry as it
\* was.
C12_UnregisterAbsentFails ==
    [][\A b \in Bots : \A h \in HandlerObjects(LifecycleInputs) :
          remove_update_handler(b, h) =>
             IF /\ h.update_type \in DOMAIN updates_handlers
                /\ h \in updates_handlers[h.update_type]
             THEN /\ raised' = "none"
                  /\ updates_handlers' =
                        [updates_handlers EXCEPT ![h.update_type] = @ \ {h}]
             ELSE /\ raised' = NotRegistered
                  /\ updates_handlers' = updates_handlers]_vars

\* Two handlers of the callback f were registered for "message", the first
\* was removed and the second stayed; a later removal of an absent handler
\* was refused.
C12_Witness ==
    /\ raised = NotRegistered
    /\ updates_handlers["message"] = {Handler(2, "f", "message", NoFilter)}
    /\ updates_handlers["poll"] = {}

\* C13: a call of __handle_updates with a batch adds one unit of work per
\* update, in the order of the batch, behind the units that were there and
\* without touching them; when it returns none of the new units has begun:
\* no middleware has been entered and no handler has been made or called.
\* (That a later update of a batch may finish before an earlier one has
\* begun is what the witness reaches.)
C13_BatchIsScheduledNotAwaited ==
    [][\A updates \in Batches :
          handle_updates(Primary, updates) =>
             /\ Len(tasks') = Len(tasks) + Len(updates)
             /\ SubSeq(tasks', 1, Len(tasks)) = tasks
             /\ \A j \in 1..Len(updates) :
                   LET t == tasks'[Len(tasks) + j]
                   IN /\ t.update = updates[j]
                      /\ t.pc = "created"
                      /\ t.trace = <<>>
                      /\ t.depth = 0
                      /\ DOMAIN t.hs = {}]_vars

\* Two updates were scheduled in this order behind a middleware; the second
\* is done, its handler called, while the first has not begun.
C13_Witness ==
    /\ Len(tasks) = 2
    /\ tasks[1].update.update_id = 1 /\ tasks[1].pc = "created"
    /\ tasks[2].update.update_id = 2 /\ tasks[2].pc = "done"
    /\ Len(tasks[2].chain) > 0
    /\ \E h \in DOMAIN tasks[2].hs : tasks[2].hs[h].called

\* The task ended with the exception of a middleware: the last event of its
\* dispatch is the entry of a middleware that raises on its update, and no
\* handler of the update was made.
FailedInMiddleware(t) ==
    /\ Len(t.trace) > 0
    /\ t.trace[Len(t.trace)][1] = "enter"
    /\ MiddlewareOn(t.trace[Len(t.trace)][2], t.update) = "raise"
    /\ DOMAIN t.hs = {}

ExitsAfterContinuation(i) ==
    /\ Len(tasks'[i].trace) = Len(tasks[i].trace) + 1
    /\ tasks'[i].trace[Len(tasks'[i].trace)][1] = "exit"

\* C15: the fan-out of an update returns only when every handler it made a
\* call of has returned, was skipped by its filter or has raised; and the
\* code of a middleware behind its continuation runs only then: at the exit
\* of a middleware no handler of the update is pending or running, and none
\* is called afterwards.
C15_FanOutWaitsForHandlers ==
    [][\A i \in DOMAIN tasks :
          /\ (tasks[i].pc = "gather" /\ tasks'[i].pc # "gather")
             => \A h \in DOMAIN tasks[i].hs : tasks[i].hs[h].st \in Finished
          /\ ExitsAfterContinuation(i)
             => /\ \A h \in DOMAIN tasks[i].hs : tasks[i].hs[h].st \in Finished
                /\ tasks'[i].hs = tasks[i].hs
          /\ tasks[i].pc \in {"unwind", "done"}
             => tasks'[i].hs = tasks[i].hs]_vars

\* Two handlers were called inside the middleware A, both returned, and A
\* exited after.
C15_Witness ==
    \E i \in DOMAIN tasks :
        /\ tasks[i].pc = "done"
        /\ tasks[i].trace =
             << <<"enter", "A">>, <<"call", "H">>, <<"call", "H">>, <<"exit", "A">> >>
        /\ \A h \in DOMAIN tasks[i].hs : tasks[i].hs[h].st = "returned"

\* Event j of the dispatch is the entry of a middleware that returns without
\* calling its continuation on this update.
SkipsAt(t, j) ==
    /\ t.trace[j][1] = "enter"
    /\ MiddlewareOn(t.trace[j][2], t.update) = "skip"

\* C16: when a middleware returns without calling its continuation, no
\* middleware registered after it is entered for that update and no handler
\* is made or called for it: the events of the dispatch end with the exit of
\* that middleware and of those around it. The step changes the unit of
\* work of that update only.
C16_SkippingMiddlewareStopsChain ==
    /\ [](\A i \in DOMAIN tasks : \A j \in 1..Len(tasks[i].trace) :
            SkipsAt(tasks[i], j) =>
               /\ DOMAIN tasks[i].hs = {}
               /\ \A k \in 1..Len(tasks[i].trace) :
                     /\ tasks[i].trace[k][1] # "call"
                     /\ k > j => tasks[i].trace[k][1] = "exit"
               /\ tasks[i].pc \in {"unwind", "done"})
    /\ [][\A i \in DOMAIN tasks :
            (/\ Len(tasks'[i].trace) > Len(tasks[i].trace)
             /\ \E j \in 1..Len(tasks'[i].trace) : SkipsAt(tasks'[i], j))
            => \A k \in DOMAIN tasks \ {i} : tasks'[k] = tasks[k]]_vars

\* S1 was registered before X1. The update with identifier 1 was stopped by
\* S1: X1, which raises on it, was not entered and the handler was not
\* called; the update with identifier 2 went through both and its handler
\* was called.
C16_Witness ==
    /\ middlewares = <<"S1", "X1">>
    /\ \E i \in DOMAIN tasks :
          /\ tasks[i].update.update_id = 1
          /\ tasks[i].pc = "done"
          /\ tasks[i].trace = << <<"enter", "S1">>, <<"exit", "S1">> >>
          /\ DOMAIN tasks[i].hs = {}
    /\ \E i \in DOMAIN tasks :
          /\ tasks[i].update.update_id = 2
          /\ tasks[i].pc = "done"
          /\ Len(tasks[i].chain) = 2
          /\ \E h \in DOMAIN tasks[i].hs : tasks[i].hs[h].st = "returned"

\* The largest identifier in the first k batches received, -1 when there is
\* none.
MaxSeen(k) ==
    LET ids == UNION {{batches[j][n] : n \in 1..Len(batches[j])} : j \in 1..k}
    IN IF ids = {} THEN -1 ELSE CHOOSE x \in ids : \A y \in ids : y <= x

\* C17: the fetches of the polling loop are sequential (a fetch is sent only
\* when every earlier one has returned), the first is sent with offset 0,
\* each is sent with one more than the largest identifier received before
\* it, between fetches last_received_update_id is the largest identifier
\* received so far (an empty batch leaves it), and it never decreases.
C17_PollingOffset ==
    /\ [](/\ Len(offsets) = fetches
           /\ Len(offsets) = Len(batches) + (IF poll_pc \in {"fetch", "failed"} THEN 1 ELSE 0)
           /\ \A j \in 1..Len(offsets) : offsets[j] = MaxSeen(j - 1) + 1
           /\ (Len(offsets) > 0 => offsets[1] = 0)
           /\ (poll_pc \in {"loop", "done"} =>
                 last_received_update_id = MaxSeen(Len(batches))))
    /\ [][/\ (poll_pc # "idle"
                => last_received_update_id' >= last_received_update_id)
          /\ ((Len(batches') > Len(batches) /\ batches'[Len(batches')] = <<>>)
                => last_received_update_id' = last_received_update_id)]_vars

\* Three fetches returned: two updates, then none, then one more; the last
\* identifier is that of the third batch.
C17_Witness ==
    /\ Len(batches) = 3
    /\ Len(batches[1]) = 2 /\ batches[2] = <<>> /\ Len(batches[3]) = 1
    /\ last_received_update_id = batches[3][1]
    /\ offsets[2] = offsets[3]

\* C18 as stated: when the first three fetches have returned [5, 6], [] and
\* [7], the offsets they were sent with are 0, 6, 6 and
\* last_received_update_id is 7.
C18_PollingSequenceAsStated ==
    (batches = << <<5, 6>>, <<>>, <<7>> >>) =>
        /\ SubSeq(offsets, 1, 3) = <<0, 6, 6>>
        /\ last_received_update_id = 7

\* C18 amended: when the first three fetches have returned [5, 6], [] and
\* [7], the offsets they were sent with are 0, 7, 7 and
\* last_received_update_id is 7.
C18_PollingSequence ==
    (batches = << <<5, 6>>, <<>>, <<7>> >>) =>
        /\ SubSeq(offsets, 1, 3) = <<0, 7, 7>>
        /\ last_received_update_id = 7

\* The three fetches returned [5, 6], [] and [7].
C18_Witness ==
    /\ batches = << <<5, 6>>, <<>>, <<7>> >>
    /\ poll_pc = "loop"

\* C19: while the running flag is clear the polling loop sends no
\* get_updates (the one in flight may return); a step that clears the flag
\* leaves every unit of work as it was, and every unit of work that was
\* scheduled runs to its end whatever happens to the flag.
C19_StopEndsPollingNotDispatch ==
    /\ [][/\ (~running[Primary] => (fetches' = fetches /\ offsets' = offsets))
          /\ ((running[Primary] /\ ~running'[Primary]) => tasks' = tasks)]_vars
    /\ \A i \in 1..MaxTasks :
          [](i \in DOMAIN tasks => <>(i \in DOMAIN tasks /\ tasks[i].pc = "done"))

\* stop() has cleared the flag while a get_updates is in flight and the
\* handler of a scheduled update is running.
C19_Witness ==
    /\ lifecycle[Primary] = "STOPPED"
    /\ ~running[Primary]
    /\ poll_pc = "fetch"
    /\ \E i \in DOMAIN tasks :
          /\ tasks[i].pc = "gather"
          /\ \E h \in DOMAIN tasks[i].hs : tasks[i].hs[h].st = "running"

\* Two registrations of the same callback for the same kind (and with the
\* same filter).
SameRegistration(h1, h2) ==
    /\ h1.function = h2.function
    /\ h1.update_type = h2.update_type
    /\ h1.filters = h2.filters

\* C20: the set of a kind holds one handler per callback: two registrations
\* of the same callback for the same kind are one entry, and no update has
\* the callback called twice.
C20_RegistryDeduplicatesByCallback ==
    /\ \A k \in DOMAIN updates_handlers :
          \A h1 \in updates_handlers[k], h2 \in updates_handlers[k] :
             SameRegistration(h1, h2) => h1 = h2
    /\ \A i \in DOMAIN tasks :
          \A h1 \in DOMAIN tasks[i].hs, h2 \in DOMAIN tasks[i].hs :
             (/\ SameRegistration(h1, h2)
              /\ tasks[i].hs[h1].called
              /\ tasks[i].hs[h2].called)
             => h1 = h2

\* The callback of the handler has been called and never returns.
Hung(t, h) == t.hs[h].st = "running" /\ FunctionOutcome(h.function) = "never"

\* C21: a handler whose callback never returns stays as it is, running: no
\* step of the dispatch cancels or ends it, and the fan-out of its update
\* stays in its gather. Every scheduled update of which no handler hangs is
\* dispatched to its end, whatever hangs in the other updates.
C21_HungHandlerDelaysOnlyItsUpdate ==
    /\ [](\A i \in DOMAIN tasks : \A h \in DOMAIN tasks[i].hs :
            Hung(tasks[i], h) => tasks[i].pc = "gather")
    /\ [][\A i \in DOMAIN tasks : \A h \in DOMAIN tasks[i].hs :
            Hung(tasks[i], h) =>
               /\ tasks'[i].hs[h] = tasks[i].hs[h]
               /\ tasks'[i].pc = tasks[i].pc]_vars
    /\ \A i \in 1..MaxTasks :
          []((i \in DOMAIN tasks /\ tasks[i].update.slots = {"poll"})
                => <>(i \in DOMAIN tasks /\ tasks[i].pc = "done"))

\* The message update was scheduled first and its handler hangs; the poll
\* update scheduled behind it is done, its handler returned.
C21_Witness ==
    /\ Len(tasks) = 2
    /\ \E h \in DOMAIN tasks[1].hs : Hung(tasks[1], h)
    /\ tasks[2].pc = "done"
    /\ \E h \in DOMAIN tasks[2].hs : tasks[2].hs[h].st = "returned"

\* The callback of the handler raises: an Exception or a TelegramException.
BodyRaises(h) == FunctionOutcome(h.function) \in {"Exception", "TelegramException"}

\* C22: every handler whose callback was called and raised, whatever the
\* class of the exception, ended in the except clause of __call_handler,
\* where the log entry is written.
C22_EveryHandlerExceptionIsLogged ==
    \A i \in DOMAIN tasks : \A h \in DOMAIN tasks[i].hs :
        (/\ BodyRaises(h)
         /\ tasks[i].hs[h].called
         /\ tasks[i].hs[h].st \in Finished)
        => tasks[i].hs[h].st = "caught"

\* The filter of the handler raises an Exception.
FilterRaises(h) == HasFilter(h) /\ FilterResult(h.filters).tag = "raise"

\* C23 as stated: a handler whose filter raises never ends in the except
\* clause of __call_handler: its exception is neither caught nor logged
\* there.
C23_FilterExceptionEscapes ==
    \A i \in DOMAIN tasks : \A h \in DOMAIN tasks[i].hs :
        FilterRaises(h) => tasks[i].hs[h].st # "caught"

\* C23 amended: a handler whose filter raises an Exception ends in the
\* except clause of __call_handler, as one whose callback raises does: once
\* it has been run the exception is caught and logged there, it never
\* escapes, and the callback is not called.
C23_FilterExceptionIsCaught ==
    \A i \in DOMAIN tasks : \A h \in DOMAIN tasks[i].hs :
        FilterRaises(h) =>
            /\ tasks[i].hs[h].st \in {"pending", "caught"}
            /\ ~tasks[i].hs[h].called
            /\ tasks[i].pc \in {"unwind", "done"} => tasks[i].hs[h].st = "caught"

\* A fan-out ended with the exception of a filter caught and a sibling
\* handler returned.
C23_Witness ==
    \E i \in DOMAIN tasks :
        /\ tasks[i].pc = "done"
        /\ \E h \in DOMAIN tasks[i].hs : FilterRaises(h) /\ tasks[i].hs[h].st = "caught"
        /\ \E h \in DOMAIN tasks[i].hs : tasks[i].hs[h].st = "returned"

\* C26: when get_updates raises, the polling loop is left with the
\* exception: the step clears the running flag (stop() in the finally
\* clause) and leaves last_received_update_id as it was, and afterwards the
\* loop sends no get_updates and receives nothing, whatever the flag becomes.
C26_FetchFailureEndsPolling ==
    /\ [](poll_pc # "failed" =>
            Len(offsets) = Len(batches) + (IF poll_pc = "fetch" THEN 1 ELSE 0))
    /\ [][/\ (poll_pc = "fetch" /\ poll_pc' # "fetch" /\ Len(batches') = Len(batches))
                => /\ poll_pc' = "failed"
                   /\ ~running'[Primary]
                   /\ last_received_update_id' = last_received_update_id
                   /\ UNCHANGED <<offsets, fetches>>
          /\ poll_pc = "failed"
                => /\ poll_pc' = "failed"
                   /\ UNCHANGED <<offsets, batches, fetches, last_received_update_id>>]_vars

\* The second get_updates failed after a batch was received: polling has
\* ended, the flag is clear and the last identifier is that of the batch.
C26_Witness ==
    /\ poll_pc = "failed"
    /\ ~running[Primary]
    /\ Len(offsets) = 2
    /\ Len(batches) = 1 /\ batches[1] # <<>>
    /\ last_received_update_id = MaxSeen(1)

\* C27: from the snapshot of start() on, the middleware list and the
\* prepared chain of the instance hold the same middlewares: no
\* add_middleware succeeds while the instance is starting or running.
C27_NoMiddlewareAfterSnapshot ==
    lifecycle[Primary] \in {"STARTING", "RUNNING"}
        => IsReverse(prepared_middlewares[Primary], middlewares)

\* C24: an update with any number of sub-updates set is taken as it is: a
\* unit of work is made of it, its fan-out makes a call of every handler of
\* every kind that is set and of no other, and no dispatch of it fails. With
\* no sub-update set the fan-out has no handler and returns.
C24_MalformedUpdatesAreDispatched ==
    /\ [](\A i \in DOMAIN tasks :
            /\ tasks[i].pc \in {"created", "gather", "unwind", "done"}
            /\ tasks[i].update.slots = {} => DOMAIN tasks[i].hs = {})
    /\ [][/\ \A updates \in MalformedBatches :
                handle_updates(Primary, updates)
                => /\ Len(tasks') = Len(tasks) + Len(updates)
                   /\ \A j \in 1..Len(updates) :
                         tasks'[Len(tasks) + j].update = updates[j]
          /\ \A i \in DOMAIN tasks :
                (tasks[i].pc = "created" /\ tasks'[i].pc # "created")
                => /\ tasks'[i].pc = "gather"
                   /\ DOMAIN tasks'[i].hs =
                         UNION {updates_handlers[k] : k \in tasks[i].update.slots}]_vars

\* The update with message and poll set is done, the handlers of both kinds
\* called in its one fan-out; the update with nothing set is done with no
\* handler.
C24_Witness ==
    /\ \E i \in DOMAIN tasks :
          /\ tasks[i].update.slots = {"message", "poll"}
          /\ tasks[i].pc = "done"
          /\ \E h \in DOMAIN tasks[i].hs :
                h.update_type = "message" /\ tasks[i].hs[h].called
          /\ \E h \in DOMAIN tasks[i].hs :
                h.update_type = "poll" /\ tasks[i].hs[h].called
    /\ \E i \in DOMAIN tasks :
          /\ tasks[i].update.slots = {}
          /\ tasks[i].pc = "done"

\* C25: a registration made through an instance that is not running
\* succeeds whatever the other instances are doing, and it changes the one
\* registry and the one middleware list: start() of another instance
\* snapshots that list and the fan-out of another instance's update makes a
\* call of every handler in that registry.
C25_RegistryIsSharedByInstances ==
    [][/\ \A r \in ChainInputs :
             (~running[Secondary] /\ add_update_handler(Secondary, r[1], r[2], r[3]))
             => /\ raised' = "none"
                /\ updates_handlers'[r[2]] =
                      updates_handlers[r[2]] \cup {Handler(next_id, r[1], r[2], r[3])}
       /\ \A m \in Middlewares :
             (~running[Secondary] /\ add_middleware(Secondary, m))
             => /\ raised' = "none"
                /\ middlewares' = Append(middlewares, m)
       /\ prepared_middlewares'[Primary] # prepared_middlewares[Primary]
             => IsReverse(prepared_middlewares'[Primary], middlewares)
       /\ \A i \in DOMAIN tasks :
             (/\ tasks[i].bot = Primary
              /\ tasks[i].pc \in {"created", "chain"}
              /\ tasks'[i].pc = "gather")
             => DOMAIN tasks'[i].hs =
                   UNION {updates_handlers[k] : k \in tasks[i].update.slots}]_vars

\* The primary instance is running behind a middleware that the secondary
\* one added. Its first update was fanned out to no handler; the secondary
\* instance, never started, then registered a handler, and the second
\* update of the primary instance had that handler called.
C25_Witness ==
    /\ running[Primary]
    /\ lifecycle[Secondary] = "NEW"
    /\ Len(tasks) = 2
    /\ tasks[1].bot = Primary /\ tasks[1].pc = "done" /\ DOMAIN tasks[1].hs = {}
    /\ tasks[1].chain = <<"A">>
    /\ tasks[2].bot = Primary /\ tasks[2].pc = "done"
    /\ \E h \in DOMAIN tasks[2].hs : tasks[2].hs[h].st = "returned"

\* C28: a batch pushed through the webhook entry point while the running
\* flag is clear, after stop() or while start() has not completed, still
\* becomes one dispatch task per update, the fan-out of that task takes
\* every handler registered for the update's kind, and the dispatch ends
\* with each of them called.
C28_PushIsDispatchedWhateverTheFlag ==
    /\ [][/\ \A state \in {"STOPPED", "STARTING"} :
               (/\ ~running[Primary]
                /\ lifecycle[Primary] = state
                /\ handle_updates(Primary, <<PushUpdate(state)>>))
               => tasks' = Append(tasks, NewTask(Primary, PushUpdate(state)))
          /\ \A i \in DOMAIN tasks :
               (/\ ~running[Primary]
                /\ tasks[i].pc = "created"
                /\ tasks'[i].pc # "created")
               => /\ tasks'[i].pc = "gather"
                  /\ DOMAIN tasks'[i].hs = updates_handlers["message"]]_vars
    /\ [](\A i \in DOMAIN tasks :
            tasks[i].pc = "done"
            => \A h \in DOMAIN tasks[i].hs : tasks[i].hs[h].st = "returned")

\* The flag is clear and two pushed updates have been dispatched to the
\* handler: one pushed after stop(), one pushed during the start() that
\* followed.
C28_Witness ==
    /\ ~running[Primary]
    /\ \E i, j \in DOMAIN tasks :
          /\ tasks[i].update.update_id = 1
          /\ tasks[j].update.update_id = 2
          /\ \A n \in {i, j} :
                /\ tasks[n].pc = "done"
                /\ \E h \in DOMAIN tasks[n].hs : tasks[n].hs[h].st = "returned"

\* C30: a filter that returns an empty mapping fails: its handler is never
\* called, the step that evaluates the filter marks the handler skipped and
\* leaves the EXTRA dict of the update as it was. A filter that returns a
\* non-empty mapping has its items merged into EXTRA and its handler called.
C30_EmptyMappingFailsTheFilter ==
    /\ [](\A i \in DOMAIN tasks : \A h \in DOMAIN tasks[i].hs :
            FilterResult(h.filters) = DictResult(<<>>)
            => /\ ~tasks[i].hs[h].called
               /\ tasks[i].hs[h].st \in {"pending", "skipped"})
    /\ [][\A i \in DOMAIN tasks : \A h \in DOMAIN tasks[i].hs :
            (/\ tasks[i].hs[h].st = "pending"
             /\ i \in DOMAIN tasks'
             /\ h \in DOMAIN tasks'[i].hs
             /\ tasks'[i].hs[h].st # "pending")
            => LET r == FilterResult(h.filters)
               IN IF r.tag = "dict" /\ DOMAIN r.d = {}
                  THEN /\ tasks'[i].hs[h].st = "skipped"
                       /\ tasks'[i].extra = tasks[i].extra
                       /\ tasks'[i].trace = tasks[i].trace
                  ELSE /\ tasks'[i].hs[h].called
                       /\ tasks'[i].extra[h.update_type] =
                             DictMerge(tasks[i].extra[h.update_type], DictItems(r.d))
                       /\ tasks'[i].trace =
                             Append(tasks[i].trace, <<"call", h.function>>)]_vars

\* A dispatch is done with both handlers of the update: the one behind the
\* empty mapping was skipped, the one behind {"k": "1"} was called and
\* returned, and EXTRA holds k from the second filter only.
C30_Witness ==
    \E i \in DOMAIN tasks :
        /\ tasks[i].pc = "done"
        /\ \E h \in DOMAIN tasks[i].hs :
              h.filters = "flt_empty" /\ tasks[i].hs[h].st = "skipped"
        /\ \E h \in DOMAIN tasks[i].hs :
              h.filters = "flt_k1" /\ tasks[i].hs[h].st = "returned"
        /\ DictKeys(tasks[i].extra["message"]) = {"bot", "k"}

\* The number of runs of the innermost continuation that one call of the
\* chain makes: each middleware multiplies it by the number of times it
\* awaits its continuation.
RECURSIVE FanOutRuns(_)
FanOutRuns(chain) ==
    IF chain = <<>>
    THEN 1
    ELSE ContinuationCalls(chain[1]) * FanOutRuns(Tail(chain))

\* The filter of handler h lets the update through.
Passes(h) == h.filters = NoFilter \/ Truthy(FilterResult(h.filters))

\* C29: when the dispatch of an update is done behind middlewares that each
\* await their continuation once, the fan-out has run once, the filter of
\* every handler registered for the update's kind has been evaluated once
\* and its callback invoked once if the filter passed, never otherwise. A
\* middleware that awaits its continuation n times multiplies all of these
\* by n: the whole fan-out runs again each time.
C29_OneEvaluationPerContinuationCall ==
    \A i \in DOMAIN tasks :
        LET t == tasks[i]
            n == FanOutRuns(t.chain)
        IN /\ t.fanouts <= n
           /\ t.pc = "done"
              => /\ (\A j \in 1..Len(t.chain) : ContinuationCalls(t.chain[j]) = 1)
                    => n = 1
                 /\ t.fanouts = n
                 /\ DOMAIN t.counts = updates_handlers["message"]
                 /\ \A h \in DOMAIN t.counts :
                       /\ t.counts[h].evaluated =
                             (IF h.filters = NoFilter THEN 0 ELSE n)
                       /\ t.counts[h].invoked = (IF Passes(h) THEN n ELSE 0)

\* A dispatch is done behind A and D, D outermost: the fan-out ran twice,
\* A was entered twice, the filter that passes was evaluated twice and its
\* callback invoked twice, the filter that fails was evaluated twice and
\* its callback never invoked.
C29_Witness ==
    \E i \in DOMAIN tasks :
        /\ tasks[i].pc = "done"
        /\ tasks[i].chain = <<"D", "A">>
        /\ tasks[i].fanouts = 2
        /\ Cardinality({j \in 1..Len(tasks[i].trace) :
                           tasks[i].trace[j] = <<"enter", "A">>}) = 2
        /\ \E h \in DOMAIN tasks[i].counts :
              /\ h.filters = "flt_true"
              /\ tasks[i].counts[h] = [evaluated |-> 2, invoked |-> 2]
        /\ \E h \in DOMAIN tasks[i].counts :
              /\ h.filters = "flt_false"
              /\ tasks[i].counts[h] = [evaluated |-> 2, invoked |-> 0]

====
